---------------------------- MODULE Spec2Model ----------------------------
(***************************************************************************)
(* parsemath: a character-level Tokenizer feeding a precedence-climbing    *)
(* recursive-descent Parser that builds an AST (Node).                     *)
(*                                                                         *)
(* A source string is a sequence of one-character strings.  The Tokenizer  *)
(* is the remaining-characters cursor `expr`; the Parser is the pair       *)
(* (tokenizer, current_token).  The recursion generate_ast / parse_number  *)
(* / convert_token_to_node is run on an explicit call stack: every action  *)
(* executes the code of the frame on top of the stack up to its next       *)
(* recursive call or its return.                                           *)
(***************************************************************************)
EXTENDS Integers, Sequences, FiniteSets, TLC

VARIABLES
    src,            \* the &str handed to Parser::new / Tokenizer::new
    expr,           \* Tokenizer.expr: the characters not yet consumed
    current_token,  \* Parser.current_token
    stack,          \* call stack of parse(): frames, top is the last element
    ret,            \* the Result returned by the call that returned last
    phase,          \* where the caller is: start, ready, parsing, done, ...
    result,         \* what Parser::new (on failure) or parse() returned
    emitted         \* every value Tokenizer::next has returned so far, in order

vars == <<src, expr, current_token, stack, ret, phase, result, emitted>>

-----------------------------------------------------------------------------
(* Bounds of the model *)

\* longest source string of the exhaustive specification Spec
MaxLen == 4
\* most binary operators in an expression of SpecArith
MaxOps == 2
\* longest chain a1^a2^...^an of SpecPow
MaxChain == 3
\* most adjacent parenthesized groups of SpecGroups
MaxGroups == 3
\* longest source string of the tokenizer-only specification SpecTok
MaxTokLen == 3
\* most next() calls in a run of SpecTok
MaxCalls == 5

-----------------------------------------------------------------------------
(* Characters *)

AsciiDigits == {"0", "1", "2", "3", "4", "5", "6", "7", "8", "9"}

\* a numeric character that is no ASCII digit (char::is_numeric accepts it,
\* the pattern '0'..='9' and str::parse::<f64> do not): SUPERSCRIPT TWO
SuperTwo == "U+00B2"

\* char::is_numeric
is_numeric(c) == c \in AsciiDigits \cup {SuperTwo}

DigitVal(c) ==
    CASE c = "0" -> 0 [] c = "1" -> 1 [] c = "2" -> 2 [] c = "3" -> 3
      [] c = "4" -> 4 [] c = "5" -> 5 [] c = "6" -> 6 [] c = "7" -> 7
      [] c = "8" -> 8 [] c = "9" -> 9

-----------------------------------------------------------------------------
(* Token, OperPrec, Node, ParseError *)

DefaultZero == 0
AddSub == 1
MulDiv == 2
Power == 3
Negative == 4

Tok(name) == [t |-> name, v |-> <<0, 0>>]
Num(val) == [t |-> "Num", v |-> val]
EOF == Tok("EOF")
\* current_token of a Parser that was never constructed
NoToken == Tok("-")

get_oper_prec(tok) ==
    CASE tok.t \in {"Add", "Subtract"} -> AddSub
      [] tok.t \in {"Multiply", "Divide"} -> MulDiv
      [] tok.t = "Caret" -> Power
      [] OTHER -> DefaultZero

Number(val) == [n |-> "Number", v |-> val]
Unary(name, child) == [n |-> name, c |-> child]
Binary(name, left, right) == [n |-> name, l |-> left, r |-> right]
NoNode == [n |-> "-"]

UnableToParse(text) == [e |-> "UnableToParse", msg |-> text, args |-> <<>>]
InvalidOperator(text, toks) == [e |-> "InvalidOperator", msg |-> text, args |-> toks]
InvalidCharacter == InvalidOperator("Invalid character", <<>>)

Ok(node) == [k |-> "Ok", node |-> node, err |-> UnableToParse("")]
Err(e) == [k |-> "Err", node |-> NoNode, err |-> e]
NoResult == [k |-> "-", node |-> NoNode, err |-> UnableToParse("")]


-----------------------------------------------------------------------------
(* Tokenizer *)

\* how many leading characters of s the `while let Some(next_char) = peek()`
\* loop of a numeric literal consumes
NumberTail(s) ==
    LET RECURSIVE scan(_)
        scan(i) == IF i <= Len(s) /\ (is_numeric(s[i]) \/ s[i] = ".")
                   THEN scan(i + 1) ELSE i - 1
    IN scan(1)

\* a decimal value mantissa * 10^-scale without trailing fraction zeros, so
\* that equal numbers are equal values ("1.50" and "1.5", "1." and "1")
NormalizeF64(m, sc) ==
    LET RECURSIVE norm(_, _)
        norm(a, b) == IF b > 0 /\ a % 10 = 0 THEN norm(a \div 10, b - 1) ELSE <<a, b>>
    IN norm(m, sc)

\* str::parse::<f64> on the text of a literal that starts with an ASCII
\* digit and holds numeric characters and dots: an Err (ok = FALSE) when it
\* holds a second dot or a numeric character that is no ASCII digit
parse_f64(s) ==
    LET dots == {i \in 1..Len(s) : s[i] = "."}
        RECURSIVE mant(_, _)
        mant(i, acc) == IF i > Len(s) THEN acc
                        ELSE IF s[i] = "." THEN mant(i + 1, acc)
                        ELSE mant(i + 1, acc * 10 + DigitVal(s[i]))
        valid == /\ Cardinality(dots) <= 1
                 /\ \A i \in 1..Len(s) : s[i] \in AsciiDigits \cup {"."}
        scale == IF dots = {} THEN 0 ELSE Len(s) - (CHOOSE i \in dots : TRUE)
    IN IF valid THEN [ok |-> TRUE, v |-> NormalizeF64(mant(1, 0), scale)]
       ELSE [ok |-> FALSE, v |-> <<0, 0>>]

Some(tok) == [k |-> "Some", tok |-> tok]
None == [k |-> "None", tok |-> NoToken]
\* the call did not return: Result::unwrap panicked
Panicked == [k |-> "Panic", tok |-> NoToken]

SymbolToken(c) ==
    CASE c = "+" -> Tok("Add")
      [] c = "-" -> Tok("Subtract")
      [] c = "*" -> Tok("Multiply")
      [] c = "/" -> Tok("Divide")
      [] c = "^" -> Tok("Caret")
      [] c = "(" -> Tok("LeftParen")
      [] c = ")" -> Tok("RightParen")

Symbols == {"+", "-", "*", "/", "^", "(", ")"}

\* Tokenizer::next on the cursor e: the value returned and the cursor after
TokenizerNext(e) ==
    IF e = <<>> THEN [out |-> Some(EOF), expr |-> e]
    ELSE IF Head(e) \in AsciiDigits THEN
        LET n == NumberTail(Tail(e))
            number == SubSeq(e, 1, n + 1)
            parsed == parse_f64(number)
        IN [out |-> IF parsed.ok THEN Some(Num(parsed.v)) ELSE Panicked,
            expr |-> SubSeq(e, n + 2, Len(e))]
    ELSE IF Head(e) \in Symbols THEN [out |-> Some(SymbolToken(Head(e))), expr |-> Tail(e)]
    ELSE [out |-> None, expr |-> Tail(e)]

-----------------------------------------------------------------------------
(* Parser: the private methods *)

\* get_next_token with a failed pull taken for the end of the input
get_next_token_end ==
    LET n == TokenizerNext(expr)
    IN [ok |-> n.out.k \in {"Some", "None"},
        panic |-> n.out.k = "Panic",
        out |-> n.out,
        expr |-> n.expr,
        current_token |-> IF n.out.k = "Some" THEN n.out.tok
                          ELSE IF n.out.k = "None" THEN EOF ELSE current_token]

\* Parser::get_next_token on the current state: whether it returned Ok(()),
\* whether the tokenizer panicked, and the fields of the Parser afterwards
get_next_token ==
    LET n == TokenizerNext(expr)
    IN [ok |-> n.out.k = "Some",
        panic |-> n.out.k = "Panic",
        out |-> n.out,
        expr |-> n.expr,
        current_token |-> IF n.out.k = "Some" THEN n.out.tok ELSE current_token]

\* the loop condition with <= for <
WhileCondNotStrict(oper_prec, tok) == oper_prec <= get_oper_prec(tok)

\* the condition of the while loop of generate_ast
WhileCond(oper_prec, tok) == oper_prec < get_oper_prec(tok)

\* the operand of a unary minus parsed at the lowest precedence
UnaryMinusPrecLowest == DefaultZero

\* the precedence parse_number hands to generate_ast after a unary minus
UnaryMinusPrec == Negative

\* the precedence parse_number hands to generate_ast for the group that
\* follows a closed group
ImplicitRightPrec == MulDiv

\* the two groups in the wrong order
ImplicitMultiplySwapped(e, right) == Binary("Multiply", right, e)

\* the node parse_number returns for two adjacent groups
ImplicitMultiply(e, right) == Binary("Multiply", e, right)

\* parse_number with an arm that also takes a leading "+"
StartsPrimaryOrPlus(tok) == tok.t \in {"Subtract", "Num", "LeftParen", "Add"}

\* parse_number with an arm that also takes the end of the input
StartsPrimaryOrEnd(tok) == tok.t \in {"Subtract", "Num", "LeftParen", "EOF"}

\* whether parse_number's match has an arm for the token
StartsPrimary(tok) == tok.t \in {"Subtract", "Num", "LeftParen"}

\* check_paren that lets the end of the input close a group
IsRightParenOrEnd(tok) == tok \in {Tok("RightParen"), EOF}

\* the test of check_paren
IsRightParen(tok) == tok = Tok("RightParen")

\* the error of check_paren
ExpectedRightParen(tok) == InvalidOperator("Expected {:?}, got {:?}", <<Tok("RightParen"), tok>>)

\* whether convert_token_to_node's match has an arm for the token
IsInfix(tok) == tok.t \in {"Add", "Subtract", "Multiply", "Divide", "Caret"}

\* the precedence convert_token_to_node hands to generate_ast for the right
\* operand of the operator
RightPrec(tok) ==
    CASE tok.t \in {"Add", "Subtract"} -> AddSub
      [] tok.t \in {"Multiply", "Divide"} -> MulDiv
      [] tok.t = "Caret" -> Power

\* the node convert_token_to_node builds for the operator
InfixNode(op, left_expr, right_expr) == Binary(op, left_expr, right_expr)

\* a call: the method, where it is, its argument and locals, and (history)
\* how many tokens had been pulled when it was called
Frame(fn, prec, node, pulled) ==
    [fn |-> fn, pc |-> "start", oper_prec |-> prec, node |-> node, op |-> "-",
     pulled |-> pulled]

top == stack[Len(stack)]
below == SubSeq(stack, 1, Len(stack) - 1)

\* the frame on top, having pulled a token, calls generate_ast(prec) and
\* will resume at pc
CallGenerateAst(pc, node, op, prec) ==
    Append(Append(below, [top EXCEPT !.pc = pc, !.node = node, !.op = op]),
           Frame("generate_ast", prec, NoNode, Len(emitted) + 1))

Running(fn) == phase = "parsing" /\ stack # <<>> /\ top.fn = fn

-----------------------------------------------------------------------------
(* Parser: the operations, one action per method *)

\* Parser::new(src)
New ==
    /\ phase = "start"
    /\ LET n == TokenizerNext(expr)
       IN /\ expr' = n.expr
          /\ emitted' = Append(emitted, n.out)
          /\ IF n.out.k = "Some"
             THEN /\ current_token' = n.out.tok
                  /\ phase' = "ready"
                  /\ result' = result
             ELSE IF n.out.k = "None"
             THEN /\ current_token' = current_token
                  /\ phase' = "new_failed"
                  /\ result' = Err(InvalidCharacter)
             ELSE /\ current_token' = current_token
                  /\ phase' = "panic"
                  /\ result' = result
    /\ UNCHANGED <<src, stack, ret>>

\* Parser::parse is called: it calls generate_ast(OperPrec::DefaultZero)
Parse ==
    /\ phase = "ready"
    /\ phase' = "parsing"
    /\ stack' = <<Frame("generate_ast", DefaultZero, NoNode, Len(emitted))>>
    /\ UNCHANGED <<src, expr, current_token, ret, result, emitted>>

\* Parser::parse returns what generate_ast returned
ParseReturn ==
    /\ phase = "parsing"
    /\ stack = <<>>
    /\ phase' = "done"
    /\ result' = ret
    /\ UNCHANGED <<src, expr, current_token, stack, ret, emitted>>

\* Parser::generate_ast: the call of parse_number, then the while loop up to
\* the call of convert_token_to_node or the return
GenerateAst ==
    /\ Running("generate_ast")
    /\ IF top.pc = "start"
       THEN /\ stack' = Append(Append(below, [top EXCEPT !.pc = "loop"]),
                               Frame("parse_number", DefaultZero, NoNode, Len(emitted)))
            /\ ret' = NoResult
       ELSE IF ret.k = "Err"
       THEN /\ stack' = below
            /\ ret' = ret
       ELSE LET left_expr == ret.node
            IN IF WhileCond(top.oper_prec, current_token) /\ current_token # EOF
               THEN /\ stack' = Append(Append(below, [top EXCEPT !.node = left_expr]),
                                       Frame("convert_token_to_node", DefaultZero, left_expr, Len(emitted)))
                    /\ ret' = NoResult
               ELSE /\ stack' = below
                    /\ ret' = Ok(left_expr)
    /\ UNCHANGED <<src, expr, current_token, phase, result, emitted>>

\* what a step that called get_next_token leaves behind when the pull did
\* not return a token: the error is returned by `?`, or the thread panicked
PullFailed(g) ==
    /\ expr' = g.expr
    /\ current_token' = g.current_token
    /\ emitted' = Append(emitted, g.out)
    /\ IF g.panic
       THEN /\ phase' = "panic"
            /\ stack' = <<>>
            /\ ret' = NoResult
       ELSE /\ phase' = phase
            /\ stack' = below
            /\ ret' = Err(InvalidCharacter)

Pulled(g) ==
    /\ expr' = g.expr
    /\ current_token' = g.current_token
    /\ emitted' = Append(emitted, g.out)
    /\ phase' = phase

NoPull == UNCHANGED <<expr, current_token, emitted, phase>>

\* Parser::check_paren, then the rest of parse_number's LeftParen arm
AfterGroup(e) ==
    IF IsRightParen(current_token)
    THEN LET g == get_next_token
         IN IF ~g.ok THEN PullFailed(g)
            ELSE /\ Pulled(g)
                 /\ IF g.current_token = Tok("LeftParen")
                    THEN /\ stack' = CallGenerateAst("right", e, "-", ImplicitRightPrec)
                         /\ ret' = NoResult
                    ELSE /\ stack' = below
                         /\ ret' = Ok(e)
    ELSE /\ NoPull
         /\ stack' = below
         /\ ret' = Err(ExpectedRightParen(current_token))

\* Parser::parse_number
ParseNumber ==
    /\ Running("parse_number")
    /\ LET token == current_token
       IN IF top.pc = "start"
          THEN IF StartsPrimary(token)
               THEN LET g == get_next_token
                    IN IF ~g.ok THEN PullFailed(g)
                       ELSE /\ Pulled(g)
                            /\ IF token.t = "Subtract"
                               THEN /\ stack' = CallGenerateAst("negative", NoNode, "-", UnaryMinusPrec)
                                    /\ ret' = NoResult
                               ELSE IF token.t = "Num"
                               THEN /\ stack' = below
                                    /\ ret' = Ok(Number(token.v))
                               ELSE /\ stack' = CallGenerateAst("group", NoNode, "-", DefaultZero)
                                    /\ ret' = NoResult
               ELSE /\ NoPull
                    /\ stack' = below
                    /\ ret' = Err(UnableToParse("Unable to parse"))
          ELSE IF ret.k = "Err"
          THEN /\ NoPull
               /\ stack' = below
               /\ ret' = ret
          ELSE IF top.pc = "negative"
          THEN /\ NoPull
               /\ stack' = below
               /\ ret' = Ok(Unary("Negative", ret.node))
          ELSE IF top.pc = "group"
          THEN AfterGroup(ret.node)
          ELSE /\ NoPull
               /\ stack' = below
               /\ ret' = Ok(ImplicitMultiply(top.node, ret.node))
    /\ UNCHANGED <<src, result>>

\* Parser::convert_token_to_node
ConvertTokenToNode ==
    /\ Running("convert_token_to_node")
    /\ IF top.pc = "start"
       THEN IF IsInfix(current_token)
            THEN LET g == get_next_token
                 IN IF ~g.ok THEN PullFailed(g)
                    ELSE /\ Pulled(g)
                         /\ stack' = CallGenerateAst("right", top.node, current_token.t,
                                                     RightPrec(current_token))
                         /\ ret' = NoResult
            ELSE /\ NoPull
                 /\ stack' = below
                 /\ ret' = Err(InvalidOperator("Please enter valid operator {:?}",
                                               <<current_token>>))
       ELSE IF ret.k = "Err"
       THEN /\ NoPull
            /\ stack' = below
            /\ ret' = ret
       ELSE /\ NoPull
            /\ stack' = below
            /\ ret' = Ok(InfixNode(top.op, top.node, ret.node))
    /\ UNCHANGED <<src, result>>

Next == New \/ Parse \/ GenerateAst \/ ParseNumber \/ ConvertTokenToNode \/ ParseReturn

-----------------------------------------------------------------------------
(* Specifications: the same program, over different sets of source strings *)

AllStrings(A, n) == UNION {[1..k -> A] : k \in 0..n}

InitOn(sources) ==
    /\ src \in sources
    /\ expr = src
    /\ current_token = NoToken
    /\ stack = <<>>
    /\ ret = NoResult
    /\ phase = "start"
    /\ result = NoResult
    /\ emitted = <<>>

Alphabet == {"1", "2", ".", "+", "-", "*", "/", "^", "(", ")", "a"}

Init == InitOn(AllStrings(Alphabet, MaxLen))

Spec == Init /\ [][Next]_vars

\* the same program under the fairness of a sequential program: a call that
\* can take its next step takes it
SpecFair == Init /\ [][Next]_vars /\ WF_vars(Next)

LitChars == {"1", "2"}
LitNodes == {Number(<<DigitVal(c), 0>>) : c \in LitChars}
LitChar(node) == CHOOSE c \in LitChars : node.v = <<DigitVal(c), 0>>

OpChar(name) ==
    CASE name = "Add" -> "+"
      [] name = "Subtract" -> "-"
      [] name = "Multiply" -> "*"
      [] name = "Divide" -> "/"
      [] name = "Caret" -> "^"

ArithOps == {"Add", "Subtract", "Multiply", "Divide"}
ArithRank(name) == IF name \in {"Add", "Subtract"} THEN 1 ELSE 2

\* the trees with exactly n operators of + - * / over the literals
RECURSIVE ArithTrees(_)
ArithTrees(n) ==
    IF n = 0 THEN LitNodes
    ELSE UNION {{Binary(op, l, r) : op \in ArithOps, l \in ArithTrees(i),
                                    r \in ArithTrees(n - 1 - i)} : i \in 0..(n - 1)}

\* a tree written as a source string.  style 0: the parentheses the standard
\* grammar needs; style 1: every compound operand parenthesized; style 2:
\* every operand parenthesized
RECURSIVE ShowArith(_, _)
ShowOperand(t, parent, right, style) ==
    LET wrap == \/ style = 2
                \/ style = 1 /\ t.n # "Number"
                \/ /\ style = 0
                   /\ t.n # "Number"
                   /\ \/ ArithRank(t.n) < ArithRank(parent)
                      \/ right /\ ArithRank(t.n) = ArithRank(parent)
    IN IF wrap THEN <<"(">> \o ShowArith(t, style) \o <<")">> ELSE ShowArith(t, style)
ShowArith(t, style) ==
    IF t.n = "Number" THEN <<LitChar(t)>>
    ELSE ShowOperand(t.l, t.n, FALSE, style) \o <<OpChar(t.n)>>
           \o ShowOperand(t.r, t.n, TRUE, style)

ArithSources ==
    {ShowArith(t, style) : t \in UNION {ArithTrees(n) : n \in 0..MaxOps}, style \in 0..2}

InitArith == InitOn(ArithSources)
SpecArith == InitArith /\ [][Next]_vars

\* the chains a1^a2^...^an, n >= 1
RECURSIVE Chains(_)
Chains(n) ==
    IF n = 1 THEN {<<c>> : c \in LitChars}
    ELSE {<<c, "^">> \o rest : c \in LitChars, rest \in Chains(n - 1)}

InitPow == InitOn(UNION {Chains(n) : n \in 1..MaxChain})
SpecPow == InitPow /\ [][Next]_vars

\* the expressions put into adjacent groups: a literal, a negated literal,
\* one binary operator on two literals, and two with a group of their own
GroupTrees ==
    LitNodes \cup {Unary("Negative", Number(<<1, 0>>))}
             \cup {Binary(op, Number(<<1, 0>>), Number(<<2, 0>>)) : op \in ArithOps \cup {"Caret"}}
             \cup {Unary("Negative", Binary("Add", Number(<<1, 0>>), Number(<<2, 0>>))),
                   Binary("Multiply", Binary("Subtract", Number(<<2, 0>>), Number(<<1, 0>>)),
                          Number(<<2, 0>>))}

\* a tree written as a source string, every compound operand parenthesized
RECURSIVE ShowGroup(_)
ShowGroupOperand(t) ==
    IF t.n = "Number" THEN ShowGroup(t) ELSE <<"(">> \o ShowGroup(t) \o <<")">>
ShowGroup(t) ==
    IF t.n = "Number" THEN <<LitChar(t)>>
    ELSE IF t.n = "Negative" THEN <<"-">> \o ShowGroupOperand(t.c)
    ELSE ShowGroupOperand(t.l) \o <<OpChar(t.n)>> \o ShowGroupOperand(t.r)

\* "(E1)(E2)...(Ek)" for the sequence ts of trees
RECURSIVE GroupsSource(_)
GroupsSource(ts) ==
    IF ts = <<>> THEN <<>>
    ELSE <<"(">> \o ShowGroup(Head(ts)) \o <<")">> \o GroupsSource(Tail(ts))

GroupSources ==
    {ShowGroup(t) : t \in GroupTrees}
        \cup {GroupsSource(ts) : ts \in UNION {[1..k -> GroupTrees] : k \in 2..MaxGroups}}

InitGroups == InitOn(GroupSources)
SpecGroups == InitGroups /\ [][Next]_vars

-----------------------------------------------------------------------------
(* The Tokenizer on its own: a caller that keeps calling next() *)

TokNext ==
    /\ phase = "tokenizer"
    /\ Len(emitted) < MaxCalls
    /\ LET n == TokenizerNext(expr)
       IN /\ expr' = n.expr
          /\ emitted' = Append(emitted, n.out)
          /\ phase' = IF n.out.k = "Panic" THEN "panic" ELSE phase
    /\ UNCHANGED <<src, current_token, stack, ret, result>>

TokAlphabet == {"1", "0", ".", "+", "(", "a", SuperTwo}

InitTok ==
    /\ src \in AllStrings(TokAlphabet, MaxTokLen)
    /\ expr = src
    /\ current_token = NoToken
    /\ stack = <<>>
    /\ ret = NoResult
    /\ phase = "tokenizer"
    /\ result = NoResult
    /\ emitted = <<>>

SpecTok == InitTok /\ [][TokNext]_vars

-----------------------------------------------------------------------------
(* Definitions the properties are stated with *)

Last(q) == q[Len(q)]
Src(str) == [i \in 1..Len(str) |-> str[i]]
Finished == phase \in {"done", "new_failed", "panic"}
OpChars == {"+", "-", "*", "/", "^"}
OpName(c) == SymbolToken(c).t

\* a numeric literal: what one Num token is lexed from
IsLiteral(s) ==
    /\ s # <<>>
    /\ Head(s) \in AsciiDigits
    /\ \A i \in 1..Len(s) : s[i] \in AsciiDigits \cup {"."}
    /\ Cardinality({i \in 1..Len(s) : s[i] = "."}) <= 1
LiteralNode(s) == Number(parse_f64(s).v)

\* The standard arithmetic grammar, as a recursive-descent recognizer of its
\* own:  expr := term (("+" | "-") term)*,  term := factor (("*" | "/") factor)*,
\* factor := digit | "(" expr ")".  Each returns the tree and the position of
\* the first character it did not read.
RefFail == [ok |-> FALSE, node |-> NoNode, pos |-> 0]
RefOk(node, pos) == [ok |-> TRUE, node |-> node, pos |-> pos]
RECURSIVE RefExpr(_, _), RefExprRest(_, _, _), RefTerm(_, _), RefTermRest(_, _, _), RefFactor(_, _)
RefFactor(s, i) ==
    IF i > Len(s) THEN RefFail
    ELSE IF s[i] \in AsciiDigits THEN RefOk(Number(<<DigitVal(s[i]), 0>>), i + 1)
    ELSE IF s[i] = "(" THEN
        LET e == RefExpr(s, i + 1)
        IN IF e.ok /\ e.pos <= Len(s) /\ s[e.pos] = ")" THEN RefOk(e.node, e.pos + 1)
           ELSE RefFail
    ELSE RefFail
RefTermRest(s, left, i) ==
    IF i <= Len(s) /\ s[i] \in {"*", "/"} THEN
        LET f == RefFactor(s, i + 1)
        IN IF f.ok THEN RefTermRest(s, Binary(OpName(s[i]), left, f.node), f.pos)
           ELSE RefFail
    ELSE RefOk(left, i)
RefTerm(s, i) ==
    LET f == RefFactor(s, i) IN IF f.ok THEN RefTermRest(s, f.node, f.pos) ELSE RefFail
RefExprRest(s, left, i) ==
    IF i <= Len(s) /\ s[i] \in {"+", "-"} THEN
        LET t == RefTerm(s, i + 1)
        IN IF t.ok THEN RefExprRest(s, Binary(OpName(s[i]), left, t.node), t.pos)
           ELSE RefFail
    ELSE RefOk(left, i)
RefExpr(s, i) ==
    LET t == RefTerm(s, i) IN IF t.ok THEN RefExprRest(s, t.node, t.pos) ELSE RefFail
RefParse(s) ==
    LET e == RefExpr(s, 1) IN IF e.ok /\ e.pos = Len(s) + 1 THEN e ELSE RefFail

-----------------------------------------------------------------------------
(* C1 *)

\* C1: when parse() has returned, it returned either an Err without a tree,
\* or an Ok whose tree covers the entire input: the current token is
\* EndOfInput and no character of the source is left unconsumed.
C1_WholeInputOrError ==
    phase = "done" =>
        \/ result.k = "Err" /\ result.node = NoNode
        \/ result.k = "Ok" /\ current_token = EOF /\ expr = <<>>

-----------------------------------------------------------------------------
(* C2 *)

\* C2: for every source that is well-formed under the standard arithmetic
\* grammar over number literals, + - * / and parentheses, parse() returns
\* Ok with exactly the tree of that grammar (* and / bind tighter than + and
\* -, equal precedence groups left to right, a group is one operand).
C2_StandardGrammar ==
    (phase = "done" /\ RefParse(src).ok) => result = Ok(RefParse(src).node)

\* C2 witness: "1-2-1", "1+2*1" and "1*(2+1)" have been parsed to their trees
C2_Witness ==
    /\ phase = "done"
    /\ \/ /\ src = Src(<<"1", "-", "2", "-", "1">>)
          /\ result.node = Binary("Subtract", Binary("Subtract", Number(<<1, 0>>), Number(<<2, 0>>)),
                                  Number(<<1, 0>>))
       \/ /\ src = Src(<<"1", "*", "(", "2", "+", "1", ")">>)
          /\ result.node = Binary("Multiply", Number(<<1, 0>>),
                                  Binary("Add", Number(<<2, 0>>), Number(<<1, 0>>)))

-----------------------------------------------------------------------------
(* C3 *)

IsChain(s) ==
    /\ Len(s) % 2 = 1
    /\ \A i \in 1..Len(s) : IF i % 2 = 1 THEN s[i] \in AsciiDigits ELSE s[i] = "^"

\* a1^a2^...^an nested to the right: Caret(a1, Caret(a2, ... an))
RECURSIVE RightNested(_)
RightNested(s) ==
    IF Len(s) = 1 THEN Number(<<DigitVal(s[1]), 0>>)
    ELSE Binary("Caret", Number(<<DigitVal(s[1]), 0>>), RightNested(SubSeq(s, 3, Len(s))))

\* C3: parse() of a chain a1^a2^...^an of number literals returns the tree
\* nested to the right, "a^b^c" giving Caret(a, Caret(b, c)).
C3_CaretGroupsRightToLeft ==
    (phase = "done" /\ IsChain(src)) => result = Ok(RightNested(src))

-----------------------------------------------------------------------------
(* C4 *)

\* C4: parse() of "-a" returns Negative(Number(a)), and parse() of "-aOPb",
\* for number literals a, b and OP one of + - * / ^, returns
\* OP(Negative(Number(a)), Number(b)): the minus applies to the literal alone.
C4_UnaryMinusBindsTightest ==
    (phase = "done" /\ src # <<>> /\ Head(src) = "-") =>
        /\ IsLiteral(Tail(src)) => result = Ok(Unary("Negative", LiteralNode(Tail(src))))
        /\ \A i \in 3..(Len(src) - 1) :
              LET a == SubSeq(src, 2, i - 1)
                  b == SubSeq(src, i + 1, Len(src))
              IN (src[i] \in OpChars /\ IsLiteral(a) /\ IsLiteral(b)) =>
                    result = Ok(Binary(OpName(src[i]), Unary("Negative", LiteralNode(a)),
                                       LiteralNode(b)))

\* C4 witness: "-1^2" has been parsed to Caret(Negative(1), 2)
C4_Witness ==
    /\ phase = "done"
    /\ src = Src(<<"-", "1", "^", "2">>)
    /\ result = Ok(Binary("Caret", Unary("Negative", Number(<<1, 0>>)), Number(<<2, 0>>)))

-----------------------------------------------------------------------------
(* C5 *)

\* how many more "(" than ")" the first j characters of s hold
Depth(s, j) ==
    Cardinality({i \in 1..j : s[i] = "("}) - Cardinality({i \in 1..j : s[i] = ")"})

\* the texts E1, ..., Ek of "(E1)(E2)...(Ek)", each group ending at the ")"
\* that closes its "("; <<>> when s is not of that form
RECURSIVE GroupTexts(_)
GroupTexts(s) ==
    IF s = <<>> \/ Head(s) # "(" \/ \A j \in 1..Len(s) : Depth(s, j) # 0 THEN <<>>
    ELSE LET close == CHOOSE j \in 1..Len(s) :
                          Depth(s, j) = 0 /\ \A i \in 1..(j - 1) : Depth(s, i) # 0
             rest == SubSeq(s, close + 1, Len(s))
         IN IF rest = <<>> THEN <<SubSeq(s, 2, close - 1)>>
            ELSE IF GroupTexts(rest) = <<>> THEN <<>>
            ELSE <<SubSeq(s, 2, close - 1)>> \o GroupTexts(rest)

IsGroupText(s) == \E t \in GroupTrees : ShowGroup(t) = s
GroupTreeOf(s) == CHOOSE t \in GroupTrees : ShowGroup(t) = s

\* Multiply(t1, Multiply(t2, ... tk))
RECURSIVE MultiplyChain(_)
MultiplyChain(ts) ==
    IF Len(ts) = 1 THEN ts[1] ELSE Binary("Multiply", ts[1], MultiplyChain(Tail(ts)))

\* C5: parse() of an expression E alone returns its tree ast(E), and parse()
\* of "(E1)(E2)...(Ek)", k >= 2, returns Ok with Multiply nodes on top of
\* exactly ast(E1), ..., ast(Ek) in source order, the chain nested to the
\* right: Multiply(ast(E1), Multiply(ast(E2), ...)); for k = 2,
\* Multiply(ast(E1), ast(E2)).
C5_ImplicitMultiplication ==
    phase = "done" =>
        /\ IsGroupText(src) => result = Ok(GroupTreeOf(src))
        /\ LET texts == GroupTexts(src)
           IN (Len(texts) >= 2 /\ \A i \in 1..Len(texts) : IsGroupText(texts[i])) =>
                 result = Ok(MultiplyChain([i \in 1..Len(texts) |-> GroupTreeOf(texts[i])]))

\* C5 witness: three adjacent groups have been parsed
C5_Witness ==
    /\ phase = "done"
    /\ src = Src(<<"(", "(", "2", "-", "1", ")", "*", "2", ")", "(", "2", ")", "(", "-", "1", ")">>)
    /\ result.k = "Ok"
    /\ result.node.r = Binary("Multiply", Number(<<2, 0>>), Unary("Negative", Number(<<1, 0>>)))

-----------------------------------------------------------------------------
(* C6 *)

\* C6: in the sequence of values next() returns, EndOfInput comes at most
\* once, and every call after an EndOfInput or after a None (unrecognized
\* character) returns None.
C6_EndOfInputOnceThenExhausted ==
    \A i, j \in 1..Len(emitted) :
        (i < j /\ emitted[i] \in {Some(EOF), None}) => emitted[j] = None

-----------------------------------------------------------------------------
(* C7 *)

\* the inner expression of a group has just returned Ok to parse_number and
\* the current token is no ")"
Unclosed ==
    /\ Running("parse_number")
    /\ top.pc = "group"
    /\ ret.k = "Ok"
    /\ current_token # Tok("RightParen")

\* an error is on its way up the call stack of parse()
Raised(e) == phase = "parsing" /\ ret = Err(e)

\* the step of a call that passes the error e on to its caller, or of
\* parse() that returns it: no token is pulled and no tree is returned
Propagates(e) ==
    /\ UNCHANGED <<expr, current_token, emitted>>
    /\ IF stack = <<>>
       THEN phase' = "done" /\ result' = Err(e) /\ result'.node = NoNode
       ELSE Raised(e)' /\ Len(stack') = Len(stack) - 1

ExpectedGot(tok) == InvalidOperator("Expected {:?}, got {:?}", <<Tok("RightParen"), tok>>)

\* C7: at any nesting depth, when the inner expression of a group has
\* parsed and the current token is no ")", the step raises
\* InvalidOperator("Expected RightParen, got <current token>") without
\* consuming the token, and every later step hands that error up unchanged
\* until parse() returns it, with no tree.
C7_UnclosedParenthesis ==
    [][/\ Unclosed => /\ Raised(ExpectedGot(current_token))'
                      /\ UNCHANGED <<expr, current_token, emitted>>
       /\ Raised(ExpectedGot(current_token)) => Propagates(ExpectedGot(current_token))
      ]_vars

\* C7 witness: parse() has returned the error for a group that is unclosed
\* inside another group, the offending token a "("
C7_Witness ==
    /\ phase = "done"
    /\ Len(src) >= 2 /\ src[1] = "(" /\ src[2] = "("
    /\ result = Err(ExpectedGot(Tok("LeftParen")))
    /\ current_token = Tok("LeftParen")

-----------------------------------------------------------------------------
(* C8 *)

\* parse_number starts on a token that cannot begin a primary expression
NoPrimary ==
    /\ Running("parse_number")
    /\ top.pc = "start"
    /\ current_token.t \in {"Add", "Multiply", "Divide", "Caret", "RightParen", "EOF"}

Unable == UnableToParse("Unable to parse")

\* C8: when a primary expression is expected and the current token is one
\* of + * / ^ ) or EndOfInput, the step raises UnableToParse without
\* consuming the token, and the error is handed up unchanged until parse()
\* returns it, with no tree.  For the empty source and for every source
\* that starts with + * / ^ or ")", Parser::new succeeds and parse() returns
\* UnableToParse.
C8_UnableToParse ==
    [][/\ NoPrimary => /\ Raised(Unable)'
                       /\ UNCHANGED <<expr, current_token, emitted>>
       /\ Raised(Unable) => Propagates(Unable)
       /\ (src = <<>> \/ Head(src) \in {"+", "*", "/", "^", ")"}) =>
             /\ phase = "start" => phase' = "ready"
             /\ phase' = "done" => result' = Err(Unable)
      ]_vars

\* C8 witness: parse() has returned UnableToParse for "*2", and for a source
\* whose operator has no right operand
C8_Witness ==
    /\ phase = "done"
    /\ result = Err(Unable)
    /\ src = Src(<<"*", "2">>) \/ src = Src(<<"1", "+">>)

-----------------------------------------------------------------------------
(* C9 *)

\* C9: a pull that yields no token is the last pull.  If it was the first
\* pull, Parser::new returned InvalidOperator("Invalid character") and there
\* is no Parser to call parse() on.  If it was a later pull, the current
\* token is still the token of the pull before it (never EndOfInput), the
\* error InvalidOperator("Invalid character") is on its way up, and it is
\* what parse() returns, with no tree.
C9_LexicalFailure ==
    LET n == Len(emitted)
    IN /\ \A i \in 1..(n - 1) : emitted[i].k = "Some"
       /\ (n >= 1 /\ emitted[n] = None) =>
             IF n = 1
             THEN /\ phase = "new_failed"
                  /\ result = Err(InvalidCharacter)
                  /\ current_token = NoToken
                  /\ ~ENABLED Next
             ELSE /\ current_token = emitted[n - 1].tok
                  /\ current_token # EOF
                  /\ phase \in {"parsing", "done"}
                  /\ phase = "parsing" => ret = Err(InvalidCharacter)
                  /\ phase = "done" => result = Err(InvalidCharacter) /\ result.node = NoNode

\* C9 witness: parse() has returned after a pull other than the first one
\* yielded no token
C9_Witness ==
    /\ phase = "done"
    /\ Len(emitted) >= 3
    /\ Last(emitted) = None

-----------------------------------------------------------------------------
(* C10 *)

\* the tokens of the source before its end, or before the first character
\* the tokenizer does not turn into a token
RECURSIVE SourceTokens(_)
SourceTokens(e) ==
    LET n == TokenizerNext(e)
    IN IF n.out.k = "Some" /\ n.out.tok # EOF THEN 1 + SourceTokens(n.expr) ELSE 0

\* a call of generate_ast, parse_number or convert_token_to_node returns Ok
ReturnsOk ==
    /\ phase = "parsing"
    /\ stack # <<>>
    /\ stack' = below
    /\ ret'.k = "Ok"

\* C10: Parser::new followed by parse() terminates; every call that returns
\* Ok (an iteration of the folding loop is one such call of
\* convert_token_to_node) has pulled at least one token since it was called;
\* at every moment the pulls made are at most the tokens of the source plus
\* one, and no pull is made after the pull that returned EndOfInput.
C10_TerminatesWithinTokens ==
    /\ <>Finished
    /\ [][ReturnsOk => Len(emitted') > top.pulled]_vars
    /\ [](/\ Len(emitted) <= SourceTokens(src) + 1
          /\ \A i \in 1..(Len(emitted) - 1) : emitted[i] # Some(EOF))

\* C10 witness: parse() has returned after pulling every token of a source
\* of three tokens, and EndOfInput
C10_Witness ==
    /\ phase = "done"
    /\ SourceTokens(src) >= 3
    /\ Len(emitted) = SourceTokens(src) + 1
    /\ Last(emitted) = Some(EOF)

=============================================================================
